---- MODULE Spec2Model ----
(***************************************************************************)
(* CLIEngine (lib/cli-engine.js): executeOnFiles, processFile, isExcluded. *)
(*                                                                         *)
(* A path is a sequence of one-character strings, so that path.extname,    *)
(* String.prototype.replace, path.resolve and the glob match are computed  *)
(* character by character.  A message text is a sequence of strings.       *)
(***************************************************************************)
EXTENDS Integers, Sequences, FiniteSets, TLC

\* Longest `files` argument handed to executeOnFiles.
MaxFiles == 2
\* Number of executeOnFiles calls made on the one CLIEngine instance.
MaxRuns == 2

VARIABLES
    options,    \* this.options (only `ignore` is read by executeOnFiles)
    pc,         \* "idle" | "traversing" | "done" | "thrown": position of the caller in executeOnFiles
    runs,       \* number of executeOnFiles calls started so far
    files,      \* the `files` argument of the current call
    traversal,  \* the filenames traverse() hands to the callback, in order
    pos,        \* number of callback invocations begun so far in this call
    results,    \* the local `results` array
    report,     \* <<>> until the call returns, then <<[results |-> ...]>>
    engine,     \* state held by the shared `eslint` module: NoState, or Verified (left by a verify)
    calls,      \* history: collaborator calls made during the current call, in order
    emit        \* history: emit[i] = the results pushed by the i-th callback invocation

vars == <<options, pc, runs, files, traversal, pos, results, report, engine, calls, emit>>

-----------------------------------------------------------------------------
(* The file system snapshot and the collaborators' behaviour on it.        *)

Cwd == <<"/", "w">>

a_js     == <<"a", ".", "j", "s">>                 \* clean file
b_js     == <<"b", ".", "j", "s">>                 \* file with two findings
c_js     == <<"c", ".", "j", "s">>                 \* matches two exclusion patterns
m_js     == <<"m", ".", "j", "s">>                 \* no such file
u_js     == <<"u", ".", "j", "s">>                 \* exists, cannot be read
g_js     == <<"g", ".", "j", "s">>                 \* its configuration cannot be loaded
v_js     == <<"v", ".", "j", "s">>                 \* the engine throws on it
d_JS     == <<"d", ".", "J", "S">>                 \* upper-case extension
readme   == <<"r">>                                \* no extension
lib      == <<"l", "i", "b">>                      \* directory
lib_a_js == <<"l", "i", "b", "/", "a", ".", "j", "s">>
lib_t_txt == <<"l", "i", "b", "/", "t", ".", "t", "x", "t">>
lib_x_js == <<"l", "i", "b", "/", "x", ".", "j", "s">>          \* excluded
lib_sub  == <<"l", "i", "b", "/", "s">>                          \* directory
lib_sub_y_js == <<"l", "i", "b", "/", "s", "/", "y", ".", "j", "s">>   \* excluded
libBx_js == <<"l", "i", "b", "\\", "x", ".", "j", "s">>          \* lib/x.js, native separator
libBsubBy_js == <<"l", "i", "b", "\\", "s", "\\", "y", ".", "j", "s">> \* lib/s/y.js, native separator

\* The elements a `files` argument is built from.
Inputs ==
    {a_js, b_js, c_js, m_js, u_js, g_js, v_js, d_JS, readme, lib,
     lib_x_js, libBx_js, libBsubBy_js}

\* path.resolve(filename): an absolute path is kept, a relative one is
\* appended to the working directory.
resolve(filename) ==
    IF filename # <<>> /\ Head(filename) = "/"
    THEN filename
    ELSE Cwd \o <<"/">> \o filename

Directories == {lib, lib_sub}

\* Directory listing, in the walker's (stable) order.
Children(dir) ==
    IF dir = lib THEN <<lib_a_js, lib_sub, lib_t_txt, lib_x_js>>
    ELSE IF dir = lib_sub THEN <<lib_sub_y_js>>
    ELSE <<>>

ExistingFiles ==
    {resolve(p) : p \in {a_js, b_js, c_js, u_js, g_js, v_js, d_JS, readme,
                         lib_a_js, lib_t_txt, lib_x_js, lib_sub_y_js,
                         libBx_js, libBsubBy_js}}

\* fs.existsSync(filePath)
existsSync(filePath) == filePath \in ExistingFiles

\* fs.readFileSync(path, "utf8") throws when the file cannot be read.
readThrows(filePath) == filePath = resolve(u_js)

\* fs.readFileSync(path, "utf8"): the text of the file.
readFileSync(filePath) ==
    [file |-> filePath,
     kind |-> IF filePath = resolve(b_js) THEN "findings"
              ELSE IF filePath = resolve(v_js) THEN "crash"
              ELSE "clean"]

\* configHelper.getConfig(filePath) throws when the configuration of the
\* file's directory chain cannot be loaded.
getConfigThrows(filePath) == filePath = resolve(g_js)

\* configHelper.getConfig(filePath): the effective configuration.
getConfig(filePath) == [configFor |-> filePath]

\* eslint.verify(text, config, filename) throws (a rule crashing).
verifyThrows(text, config, filename) == text.kind = "crash"

\* eslint.verify(text, config, filename): the engine's messages.
verify(text, config, filename) ==
    IF text.kind = "findings"
    THEN << [fatal |-> FALSE, message |-> <<"Missing semicolon.">>],
            [fatal |-> FALSE, message |-> <<"Unexpected console statement.">>] >>
    ELSE <<>>

\* configHelper.getExclusions(): the patterns of the ignore file.
exclusions ==
    << <<"c", ".", "j", "s">>,
       <<"c", ".", "*">>,
       <<"l", "i", "b", "/", "x", ".", "j", "s">>,
       <<"l", "i", "b", "/", "s", "/", "y", ".", "j", "s">>,
       <<"l", "i", "b", "/", "t", ".", "*">> >>

\* eslint state after reset(), before any verify.
NoState == "clean"

\* eslint state once verify has run on a file: scopes, comments and
\* reported messages of that file.
Verified == "verified"

-----------------------------------------------------------------------------
(* Library functions, computed as the library computes them.               *)

LastIndexOf(s, ch) ==
    LET I == {i \in 1..Len(s) : s[i] = ch}
    IN  IF I = {} THEN 0 ELSE CHOOSE i \in I : \A j \in I : j <= i

\* path.basename(p): what follows the last "/".
basename(p) == SubSeq(p, LastIndexOf(p, "/") + 1, Len(p))

\* path.extname(p): from the last "." of the basename to its end; empty when
\* there is no "." or the basename starts with its only ".".
extname(p) ==
    LET b == basename(p)
        d == LastIndexOf(b, ".")
    IN  IF d <= 1 THEN <<>> ELSE SubSeq(b, d, Len(b))

\* String.prototype.replace(from, to) with a string pattern: the FIRST
\* occurrence only.
RECURSIVE replace(_, _, _)
replace(s, from, to) ==
    IF s = <<>> THEN <<>>
    ELSE IF Head(s) = from THEN <<to>> \o Tail(s)
    ELSE <<Head(s)>> \o replace(Tail(s), from, to)

\* minimatch(name, pattern): literal characters, "?" (one character other
\* than "/") and "*" (any run of characters other than "/"); the pattern has
\* to match the whole name.
RECURSIVE minimatch(_, _)
minimatch(name, pattern) ==
    IF pattern = <<>> THEN name = <<>>
    ELSE IF Head(pattern) = "*"
         THEN \/ minimatch(name, Tail(pattern))
              \/ /\ name # <<>>
                 /\ Head(name) # "/"
                 /\ minimatch(Tail(name), pattern)
    ELSE IF Head(pattern) = "?"
         THEN /\ name # <<>>
              /\ Head(name) # "/"
              /\ minimatch(Tail(name), Tail(pattern))
    ELSE /\ name # <<>>
         /\ Head(name) = Head(pattern)
         /\ minimatch(Tail(name), Tail(pattern))

\* traverse({files: files}, callback): a directory is expanded recursively,
\* anything else (a file, or a name with no file behind it) passes through.
RECURSIVE walk(_)
RECURSIVE walkAll(_)
walk(name) ==
    IF name \in Directories THEN walkAll(Children(name)) ELSE <<name>>
walkAll(names) ==
    IF names = <<>> THEN <<>> ELSE walk(Head(names)) \o walkAll(Tail(names))

traverse(fileList) == walkAll(fileList)

-----------------------------------------------------------------------------
(* lib/cli-engine.js                                                       *)

\* One entry of the call history.
Call(fn, at, arg, out, threw, eng) ==
    [fn |-> fn, at |-> at, arg |-> arg, out |-> out, threw |-> threw, eng |-> eng]

\* isExcluded(name, exclude)
isExcluded(name, exclude) ==
    LET normalized == replace(name, "\\", "/")
    IN  \E i \in 1..Len(exclude) : minimatch(normalized, exclude[i])

\* reset() that clears nothing.
resetKeepsState(eng) == eng

\* eslint.reset(): the engine state it leaves.
reset(eng) == NoState

\* The messages of the missing-file branch of processFile.
NotFoundMessages(filePath) ==
    << [fatal |-> TRUE,
        message |-> <<"Could not find file at '">> \o filePath \o <<"'.">>] >>

\* The result reported under the resolved path instead of the given one.
ResultUnderResolvedPath(filename, messages) ==
    [filePath |-> resolve(filename), messages |-> messages]

\* The object processFile returns.
Result(filename, messages) == [filePath |-> filename, messages |-> messages]

\* processFile(filename, configHelper), called by the `at`-th callback
\* invocation with the engine in state `eng`.  Yields what it returns
\* (result: <<>> when it throws), the calls it made and the engine state it
\* leaves.
processFile(filename, at, eng) ==
    LET enter    == Call("processFile", at, filename, <<>>, FALSE, eng)
        cReset   == Call("reset", at, <<>>, <<>>, FALSE, eng)
        eng1     == reset(eng)
        filePath == resolve(filename)
        cExists  == Call("existsSync", at, filePath, existsSync(filePath), FALSE, eng1)
        config   == getConfig(filePath)
        text     == readFileSync(resolve(filename))
        messages == verify(text, config, filename)
        cConfig(t) == Call("getConfig", at, filePath,
                           IF t THEN <<>> ELSE config, t, eng1)
        cRead(t)   == Call("readFileSync", at, resolve(filename),
                           IF t THEN <<>> ELSE text, t, eng1)
        cVerify(t) == Call("verify", at, <<text, config, filename>>,
                           IF t THEN <<>> ELSE messages, t, eng1)
    IN  IF existsSync(filePath)
        THEN IF getConfigThrows(filePath)
             THEN [threw |-> TRUE, result |-> <<>>, engine |-> eng1,
                   calls |-> <<enter, cReset, cExists, cConfig(TRUE)>>]
             ELSE IF readThrows(resolve(filename))
             THEN [threw |-> TRUE, result |-> <<>>, engine |-> eng1,
                   calls |-> <<enter, cReset, cExists, cConfig(FALSE), cRead(TRUE)>>]
             ELSE IF verifyThrows(text, config, filename)
             THEN [threw |-> TRUE, result |-> <<>>, engine |-> Verified,
                   calls |-> <<enter, cReset, cExists, cConfig(FALSE), cRead(FALSE),
                               cVerify(TRUE)>>]
             ELSE [threw |-> FALSE, result |-> <<Result(filename, messages)>>,
                   engine |-> Verified,
                   calls |-> <<enter, cReset, cExists, cConfig(FALSE), cRead(FALSE),
                               cVerify(FALSE)>>]
        ELSE [threw |-> FALSE,
              result |-> <<Result(filename, NotFoundMessages(filePath))>>,
              engine |-> eng1,
              calls |-> <<enter, cReset, cExists>>]

DotJs == <<".", "j", "s">>

\* The extension compared without regard to case.
IsJsAnyCase(filename) ==
    LET e == extname(filename)
    IN  [k \in 1..Len(e) |-> IF e[k] = "J" THEN "j" ELSE IF e[k] = "S" THEN "s" ELSE e[k]]
        = DotJs

\* path.extname(filename) === ".js"
IsJs(filename) == extname(filename) = DotJs

\* Every excluded file taken as explicitly named.
IsExplicitAlways(filename, fileList) == TRUE

\* files.indexOf(filename) > -1
IsExplicit(filename, fileList) ==
    \E k \in 1..Len(fileList) : fileList[k] = filename

IgnoreText ==
    <<"File ignored because of your .eslintignore file. Use --no-ignore to override.">>

\* The advisory marked fatal.
IgnoredResultFatal(filename) ==
    [filePath |-> filename,
     messages |-> << [fatal |-> TRUE, message |-> IgnoreText] >>]

\* The result pushed for an explicitly named, excluded file.
IgnoredResult(filename) ==
    [filePath |-> filename,
     messages |-> << [fatal |-> FALSE, message |-> IgnoreText] >>]

\* results.unshift(r)
unshift(rs, r) == <<r>> \o rs

\* results.push(r)
push(rs, r) == Append(rs, r)

\* The isExcluded call of the callback, as the history records it.
cExcluded(filename, at) ==
    Call("isExcluded", at, filename, isExcluded(filename, exclusions), FALSE, engine)

\* The filename the next callback invocation receives.
filenameNow == traversal[pos + 1]

InCallback == pc = "traversing" /\ pos < Len(traversal)

\* !this.options.ignore || !isExcluded(filename, exclusions)
ShouldProcess(filename) ==
    ~options.ignore \/ ~isExcluded(filename, exclusions)

\* The calls the condition on line 180 makes: isExcluded is reached only
\* when options.ignore is true.
ConditionCalls(filename, at) ==
    IF options.ignore THEN <<cExcluded(filename, at)>> ELSE <<>>

TypeOK ==
    /\ options \in [ignore : BOOLEAN]
    /\ pc \in {"idle", "traversing", "done", "thrown"}
    /\ runs \in 0..MaxRuns
    /\ pos \in 0..Len(traversal)
    /\ Len(emit) = pos

Init ==
    /\ options \in [ignore : BOOLEAN]
    /\ pc = "idle"
    /\ runs = 0
    /\ files = <<>>
    /\ traversal = <<>>
    /\ pos = 0
    /\ results = <<>>
    /\ report = <<>>
    /\ engine = NoState
    /\ calls = <<>>
    /\ emit = <<>>

FileLists == UNION {[1..n -> Inputs] : n \in 0..MaxFiles}

\* executeOnFiles(fileList) is entered: results = [], the walker is set up.
executeOnFiles(fileList) ==
    /\ pc = "idle"
    /\ runs < MaxRuns
    /\ runs' = runs + 1
    /\ files' = fileList
    /\ traversal' = traverse(fileList)
    /\ pos' = 0
    /\ results' = <<>>
    /\ report' = <<>>
    /\ calls' = <<>>
    /\ emit' = <<>>
    /\ pc' = "traversing"
    /\ UNCHANGED <<options, engine>>

\* Callback: the extension is not ".js"; nothing happens.
SkipOtherExtension ==
    /\ InCallback
    /\ ~IsJs(filenameNow)
    /\ pos' = pos + 1
    /\ emit' = Append(emit, <<>>)
    /\ UNCHANGED <<options, pc, runs, files, traversal, results, report, engine, calls>>

\* Callback: the file is linted and processFile returns.
LintFile ==
    /\ InCallback
    /\ IsJs(filenameNow)
    /\ ShouldProcess(filenameNow)
    /\ LET r == processFile(filenameNow, pos + 1, engine)
       IN  /\ ~r.threw
           /\ results' = push(results, r.result[1])
           /\ emit' = Append(emit, r.result)
           /\ engine' = r.engine
           /\ calls' = calls \o ConditionCalls(filenameNow, pos + 1) \o r.calls
    /\ pos' = pos + 1
    /\ UNCHANGED <<options, pc, runs, files, traversal, report>>

\* Callback: processFile throws; nothing catches it, executeOnFiles is left
\* by the exception and no report is returned.
LintFileThrows ==
    /\ InCallback
    /\ IsJs(filenameNow)
    /\ ShouldProcess(filenameNow)
    /\ LET r == processFile(filenameNow, pos + 1, engine)
       IN  /\ r.threw
           /\ engine' = r.engine
           /\ calls' = calls \o ConditionCalls(filenameNow, pos + 1) \o r.calls
    /\ emit' = Append(emit, <<>>)
    /\ pos' = pos + 1
    /\ pc' = "thrown"
    /\ UNCHANGED <<options, runs, files, traversal, results, report>>

\* Callback: the file is excluded and was named in `files`: one advisory.
WarnIgnored ==
    /\ InCallback
    /\ IsJs(filenameNow)
    /\ ~ShouldProcess(filenameNow)
    /\ IsExplicit(filenameNow, files)
    /\ results' = push(results, IgnoredResult(filenameNow))
    /\ emit' = Append(emit, <<IgnoredResult(filenameNow)>>)
    /\ calls' = calls \o ConditionCalls(filenameNow, pos + 1)
    /\ pos' = pos + 1
    /\ UNCHANGED <<options, pc, runs, files, traversal, report, engine>>

\* Callback: the file is excluded and was found by directory expansion.
SkipIgnored ==
    /\ InCallback
    /\ IsJs(filenameNow)
    /\ ~ShouldProcess(filenameNow)
    /\ ~IsExplicit(filenameNow, files)
    /\ emit' = Append(emit, <<>>)
    /\ calls' = calls \o ConditionCalls(filenameNow, pos + 1)
    /\ pos' = pos + 1
    /\ UNCHANGED <<options, pc, runs, files, traversal, results, report, engine>>

\* traverse() is through: return { results: results }.
Return ==
    /\ pc = "traversing"
    /\ pos = Len(traversal)
    /\ report' = <<[results |-> results]>>
    /\ pc' = "done"
    /\ UNCHANGED <<options, runs, files, traversal, pos, results, engine, calls, emit>>

\* The caller has taken the report (or caught the exception): the locals of
\* the finished call are gone, the engine instance and the eslint module stay.
Release ==
    /\ pc \in {"done", "thrown"}
    /\ pc' = "idle"
    /\ files' = <<>>
    /\ traversal' = <<>>
    /\ pos' = 0
    /\ results' = <<>>
    /\ report' = <<>>
    /\ calls' = <<>>
    /\ emit' = <<>>
    /\ UNCHANGED <<options, runs, engine>>

Execute == \E fileList \in FileLists : executeOnFiles(fileList)

Next ==
    \/ Execute
    \/ SkipOtherExtension
    \/ LintFile
    \/ LintFileThrows
    \/ WarnIgnored
    \/ SkipIgnored
    \/ Return
    \/ Release

Spec == Init /\ [][Next]_vars

-----------------------------------------------------------------------------
(* Vocabulary of the properties.                                           *)

Range(s) == {s[k] : k \in 1..Len(s)}

\* Positions, in the call history, of the calls to one of `fns` made by the
\* i-th callback invocation.
CallsAt(i, fns) == {k \in 1..Len(calls) : calls[k].at = i /\ calls[k].fn \in fns}

RECURSIVE Flatten(_)
Flatten(ss) == IF ss = <<>> THEN <<>> ELSE Head(ss) \o Flatten(Tail(ss))

\* `sub` occurs in `text` as a contiguous run.
Contains(text, sub) ==
    \E k \in 1..(Len(text) - Len(sub) + 1) : SubSeq(text, k, k + Len(sub) - 1) = sub

\* The path with every backslash written as a forward slash.
ForwardSlashes(p) == [k \in 1..Len(p) |-> IF p[k] = "\\" THEN "/" ELSE p[k]]

\* The patterns the (normalized) path matches.
MatchedPatterns(p) ==
    {k \in 1..Len(exclusions) : minimatch(replace(p, "\\", "/"), exclusions[k])}

Advisory(p) ==
    [filePath |-> p,
     messages |-> << [fatal |-> FALSE,
                      message |-> <<"File ignored because of your .eslintignore file. Use --no-ignore to override.">>] >>]

\* The file makes processFile's collaborators fail, or is missing.
FailingFile(p) ==
    \/ resolve(p) \notin ExistingFiles
    \/ readThrows(resolve(p))
    \/ getConfigThrows(resolve(p))
    \/ verifyThrows(readFileSync(resolve(p)), getConfig(resolve(p)), p)

-----------------------------------------------------------------------------
C2_ImplicitExcludedIsSilent ==
    options.ignore =>
        \A i \in 1..pos :
            LET p == traversal[i]
            IN  (MatchedPatterns(p) # {} /\ p \notin Range(files))
                => /\ emit[i] = <<>>
                   /\ CallsAt(i, {"processFile", "reset", "existsSync", "getConfig",
                                  "readFileSync", "verify"}) = {}
                   /\ (i = pos => pc \in {"traversing", "done"})

\* C2 witness: `lib` was expanded, lib/x.js was passed over in silence and a
\* later path was linted.
C2_Witness ==
    /\ options.ignore
    /\ files = <<lib, a_js>>
    /\ pc = "done"
    /\ \E i \in 1..pos : traversal[i] = lib_x_js /\ emit[i] = <<>> /\ emit[i + 1] # <<>>

\* C3 (as claimed): no run is left by an exception, and in a returned report
\* every file that is missing, unreadable or fails in the resolver or the
\* engine has a result with one fatal message.
C3_PerFileErrorsNeverAbort ==
    /\ pc # "thrown"
    /\ pc = "done" =>
          \A i \in 1..pos :
              (FailingFile(traversal[i]) /\ CallsAt(i, {"processFile"}) # {})
              => /\ Len(emit[i]) = 1
                 /\ Len(emit[i][1].messages) = 1
                 /\ emit[i][1].messages[1].fatal

\* C4: the results of a returned report are the results of the callback
\* invocations in invocation order and nothing else, each under the path the
\* invocation received; an empty `files` gives empty results.
C4_ResultsInEncounterOrder ==
    pc = "done" =>
        /\ pos = Len(traversal)
        /\ report[1].results = Flatten(emit)
        /\ \A i \in 1..pos :
              emit[i] # <<>> => Len(emit[i]) = 1 /\ emit[i][1].filePath = traversal[i]
        /\ (files = <<>> => report[1].results = <<>>)

\* C4 witness: a report with a linted result followed by an advisory one.
C4_Witness ==
    /\ pc = "done"
    /\ files = <<b_js, c_js>>
    /\ options.ignore
    /\ Len(report[1].results) = 2
    /\ report[1].results[1].filePath = b_js
    /\ report[1].results[2] = Advisory(c_js)

\* C5 (as claimed): with options.ignore false every traversed ".js" path is
\* handed to processFile once and gets exactly one result, a processed one,
\* and no advisory result exists.
C5_NoIgnoreProcessesEveryJs ==
    ~options.ignore =>
        /\ \A i \in 1..pos :
              extname(traversal[i]) = <<".", "j", "s">>
              => /\ Cardinality(CallsAt(i, {"processFile"})) = 1
                 /\ Len(emit[i]) = 1
                 /\ emit[i][1] # Advisory(traversal[i])
        /\ \A k \in 1..Len(results) : results[k] # Advisory(results[k].filePath)

\* Supplement to C5: the same, for the callback invocations no exception left.
C5_WhereNothingThrew ==
    ~options.ignore =>
        /\ \A i \in 1..pos :
              (extname(traversal[i]) = <<".", "j", "s">>
                 /\ \A k \in 1..Len(calls) : calls[k].at = i => ~calls[k].threw)
              => /\ Cardinality(CallsAt(i, {"processFile"})) = 1
                 /\ Len(emit[i]) = 1
                 /\ emit[i][1] # Advisory(traversal[i])
        /\ \A k \in 1..Len(results) : results[k] # Advisory(results[k].filePath)

\* C6: a traversed path whose extension is not exactly ".js" gets no result
\* and no call at all (neither isExcluded nor processFile), whatever
\* options.ignore is and whether or not it is named in `files` or excluded.
C6_OtherExtensionsSkipped ==
    \A i \in 1..pos :
        extname(traversal[i]) # <<".", "j", "s">>
        => /\ emit[i] = <<>>
           /\ CallsAt(i, {"isExcluded", "processFile", "reset", "existsSync",
                          "getConfig", "readFileSync", "verify"}) = {}

\* C6 witness: "d.JS", named in `files`, and the excluded "lib/t.txt" have
\* both been passed over.
C6_Witness ==
    /\ d_JS \in Range(files)
    /\ \E i \in 1..pos : traversal[i] = d_JS
    /\ \E i \in 1..pos : traversal[i] = lib_t_txt /\ MatchedPatterns(lib_t_txt) # {}

\* C7: when processFile is called for a path with no file at its resolved
\* location, the result has filePath = the path as given and exactly one
\* message, fatal, whose text contains the resolved path; getConfig,
\* readFileSync and verify are not called.
C7_MissingFileResult ==
    \A i \in 1..pos :
        LET p == traversal[i]
        IN  (CallsAt(i, {"processFile"}) # {} /\ resolve(p) \notin ExistingFiles)
            => /\ Len(emit[i]) = 1
               /\ emit[i][1].filePath = p
               /\ Len(emit[i][1].messages) = 1
               /\ emit[i][1].messages[1].fatal = TRUE
               /\ Contains(emit[i][1].messages[1].message, resolve(p))
               /\ CallsAt(i, {"getConfig", "readFileSync", "verify"}) = {}

\* C7 witness: processFile has been called for the missing "m.js".
C7_Witness ==
    \E i \in 1..pos :
        /\ traversal[i] = m_js
        /\ CallsAt(i, {"processFile"}) # {}
        /\ resolve(m_js) # m_js

\* C8 (as claimed): isExcluded answers for a path as it answers for the same
\* path with every backslash written as a forward slash.
C8_SeparatorInvariant ==
    \A k \in 1..Len(calls) :
        calls[k].fn = "isExcluded"
        => calls[k].out = isExcluded(ForwardSlashes(calls[k].arg), exclusions)

\* C9 (as claimed): for an existing file processFile calls getConfig once
\* with the resolved path, verify once with (content, that configuration,
\* the path as given) and returns the engine's messages under the path as
\* given.
C9_ExistingFileIsVerified ==
    \A i \in 1..pos :
        LET p == traversal[i]
        IN  (CallsAt(i, {"processFile"}) # {} /\ resolve(p) \in ExistingFiles)
            => /\ \E g \in CallsAt(i, {"getConfig"}) :
                     /\ CallsAt(i, {"getConfig"}) = {g}
                     /\ calls[g].arg = resolve(p)
               /\ \E v \in CallsAt(i, {"verify"}) :
                     /\ CallsAt(i, {"verify"}) = {v}
                     /\ ~calls[v].threw
                     /\ calls[v].arg = <<readFileSync(resolve(p)), getConfig(resolve(p)), p>>
                     /\ emit[i] = <<[filePath |-> p, messages |-> calls[v].out]>>

\* Supplement to C9: the same, for the processFile calls no exception left.
C9_WhereNothingThrew ==
    \A i \in 1..pos :
        LET p == traversal[i]
        IN  (/\ CallsAt(i, {"processFile"}) # {}
             /\ resolve(p) \in ExistingFiles
             /\ \A k \in 1..Len(calls) : calls[k].at = i => ~calls[k].threw)
            => /\ \E g \in CallsAt(i, {"getConfig"}) :
                     /\ CallsAt(i, {"getConfig"}) = {g}
                     /\ calls[g].arg = resolve(p)
               /\ \E v \in CallsAt(i, {"verify"}) :
                     /\ CallsAt(i, {"verify"}) = {v}
                     /\ calls[v].arg = <<readFileSync(resolve(p)), getConfig(resolve(p)), p>>
                     /\ emit[i] = <<[filePath |-> p, messages |-> calls[v].out]>>

\* C10: every eslint.verify call finds the engine in the state reset leaves,
\* and is preceded by an eslint.reset call of the same callback invocation
\* with no reset and no verify between the two.
C10_ResetBeforeEveryVerify ==
    \A j \in 1..Len(calls) :
        calls[j].fn = "verify"
        => /\ calls[j].eng = "clean"
           /\ \E i \in 1..(j - 1) :
                 /\ calls[i].fn = "reset"
                 /\ calls[i].at = calls[j].at
                 /\ \A k \in (i + 1)..(j - 1) : calls[k].fn \notin {"reset", "verify"}

\* C10 witness: in a second run, the first file's reset found the state a
\* verify of the run before had left, and its verify followed.
C10_Witness ==
    /\ runs = 2
    /\ \E i \in 1..Len(calls) :
          /\ calls[i].fn = "reset"
          /\ calls[i].at = 1
          /\ calls[i].eng = "verified"
          /\ \E j \in (i + 1)..Len(calls) : calls[j].fn = "verify" /\ calls[j].at = 1

====
